---- MODULE Spec2Model ----
(***************************************************************************)
(* scripts/train.py: the text normaliser `stemming` (regex token           *)
(* extraction, optional lowercasing, Snowball English stemming, stopword   *)
(* filter on the stems, join with single spaces) and the generator         *)
(* `batch_iterator` that feeds the normalised dataset, group by group, to  *)
(* the word-level trainer.                                                 *)
(*                                                                         *)
(* A text is a sequence of one-character strings.  The alphabet is a small *)
(* slice of Unicode: five lowercase letters, one uppercase letter and the  *)
(* space (the dataset's sample documents also hold a full stop).           *)
(***************************************************************************)
EXTENDS Integers, Sequences, FiniteSets, TLC

\* ------------------------------------------------------------------ bounds
\* longest text given to stemming
MaxLen == 5
\* longest dataset
MaxDocs == 3
\* largest batch_size tried
MaxBatch == 3

\* -------------------------------------------------------------- characters
LowerLetters == {"d", "e", "o", "s", "u"}
UpperLetters == {"D"}
NonWordChars == {" "}
Alphabet == LowerLetters \cup UpperLetters \cup NonWordChars

Texts == UNION {[1..n -> Alphabet] : n \in 0..MaxLen}

\* \w under (?u): alphanumeric or underscore
IsWord(c) == c \in LowerLetters \cup UpperLetters

\* str.lower, character by character
lowerChar(c) == IF c = "D" THEN "d" ELSE c
lower(w) == [i \in 1..Len(w) |-> lowerChar(w[i])]

Max(S) == CHOOSE x \in S : \A y \in S : y <= x
Min(S) == CHOOSE x \in S : \A y \in S : x <= y

\* ------------------------------------------------------------------- REGEX
\* \b at offset i of t (between t[i] and t[i+1]): exactly one side is \w
Boundary(t, i) ==
    LET before == i >= 1 /\ IsWord(t[i])
        after == i < Len(t) /\ IsWord(t[i + 1])
    IN before # after

\* a mis-typed pattern: \b\w+\b, no minimum length
REGEX_anyLength(t, i) ==
    IF ~Boundary(t, i) THEN -1
    ELSE LET C == {j \in (i + 1)..Len(t) :
                      (\A k \in (i + 1)..j : IsWord(t[k])) /\ Boundary(t, j)}
         IN IF C = {} THEN -1 ELSE Max(C)

\* a mis-typed pattern: \b\w\w+?, lazy and without the closing \b
REGEX_lazy(t, i) ==
    IF Boundary(t, i) /\ i + 2 <= Len(t) /\ IsWord(t[i + 1]) /\ IsWord(t[i + 2])
    THEN i + 2 ELSE -1

\* REGEX.match at offset i: \b, \w, then \w+ (greedy, giving characters back
\* until the closing \b holds).  The offset where the match ends, or -1.
REGEX(t, i) ==
    IF ~Boundary(t, i) THEN -1
    ELSE LET C == {j \in (i + 2)..Len(t) :
                      (\A k \in (i + 1)..j : IsWord(t[k])) /\ Boundary(t, j)}
         IN IF C = {} THEN -1 ELSE Max(C)

\* REGEX.findall: scan left to right; after a match resume where it ended,
\* after a failure one character further
RECURSIVE findallFrom(_, _)
findallFrom(t, i) ==
    IF i >= Len(t) THEN <<>>
    ELSE LET j == REGEX(t, i)
         IN IF j = -1 THEN findallFrom(t, i + 1)
            ELSE <<SubSeq(t, i + 1, j)>> \o findallFrom(t, j)

findall(t) == findallFrom(t, 0)

\* ----------------------------------------------------------------- stemmer
\* Stemmer("english"): the Snowball English (Porter2) algorithm, the rules
\* that a word over the alphabet can trigger.  Not reachable over this
\* alphabet, and left out: the exception lists, the apostrophe step 0, the
\* y/Y marking, ied/ies, ing/ingly/edly/eedly, steps 1c, 2, 3 and every step 4
\* suffix but "ous", and step 5's "l".  The rules are those of the algorithm
\* as published with Snowball 2; a later revision keeps a double that
\* follows a lone initial a, e or o ("odd"), which changes some stems and
\* none of the properties below.
IsVowel(c) == c \in {"a", "e", "i", "o", "u", "y"}

EndsWith(w, s) ==
    Len(w) >= Len(s) /\ SubSeq(w, Len(w) - Len(s) + 1, Len(w)) = s

DropLast(w, n) == SubSeq(w, 1, Len(w) - n)

\* gopast v, gopast non-v from offset c: the offset just after the first
\* non-vowel that follows a vowel, or Len(w) when there is none
markAfter(w, c) ==
    LET V == {k \in (c + 1)..Len(w) : IsVowel(w[k])}
    IN IF V = {} THEN Len(w)
       ELSE LET N == {k \in (Min(V) + 1)..Len(w) : ~IsVowel(w[k])}
            IN IF N = {} THEN Len(w) ELSE Min(N)

\* mark_regions: p1 and p2, kept as offsets into the original word
p1Of(w) == markAfter(w, 0)
p2Of(w) == IF p1Of(w) = Len(w) THEN Len(w) ELSE markAfter(w, p1Of(w))

\* a vowel somewhere in the first n characters
hasVowel(w, n) == \E k \in 1..n : IsVowel(w[k])

\* shortv, tested backwards from the end of w
shortv(w) ==
    LET n == Len(w)
    IN \/ /\ n >= 3
          /\ ~IsVowel(w[n]) /\ w[n] \notin {"w", "x", "Y"}
          /\ IsVowel(w[n - 1])
          /\ ~IsVowel(w[n - 2])
       \/ /\ n = 2
          /\ ~IsVowel(w[2])
          /\ IsVowel(w[1])

\* Step 1a: sses -> ss; us, ss kept; s deleted when a vowel precedes the
\* letter before it
Step_1a(w) ==
    IF EndsWith(w, <<"s", "s", "e", "s">>) THEN DropLast(w, 2)
    ELSE IF EndsWith(w, <<"u", "s">>) \/ EndsWith(w, <<"s", "s">>) THEN w
    ELSE IF EndsWith(w, <<"s">>) /\ Len(w) >= 2 /\ hasVowel(w, Len(w) - 2)
         THEN DropLast(w, 1)
    ELSE w

Doubles == {<<c, c>> : c \in {"b", "d", "f", "g", "m", "n", "p", "r", "t"}}

\* Step 1b: eed -> ee in R1; ed deleted after a vowel, and then: at, bl, iz
\* gain an e; a double loses its last letter; a short word gains an e
Step_1b(w, p1) ==
    IF EndsWith(w, <<"e", "e", "d">>)
    THEN IF Len(w) - 3 >= p1 THEN DropLast(w, 1) ELSE w
    ELSE IF EndsWith(w, <<"e", "d">>) /\ hasVowel(w, Len(w) - 2)
    THEN LET v == DropLast(w, 2)
         IN IF \/ EndsWith(v, <<"a", "t">>)
               \/ EndsWith(v, <<"b", "l">>)
               \/ EndsWith(v, <<"i", "z">>)
            THEN Append(v, "e")
            ELSE IF \E d \in Doubles : EndsWith(v, d) THEN DropLast(v, 1)
            ELSE IF Len(v) = p1 /\ shortv(v) THEN Append(v, "e")
            ELSE v
    ELSE w

\* Step 4, the one suffix spelt with these letters: ous deleted in R2
Step_4(w, p2) ==
    IF EndsWith(w, <<"o", "u", "s">>) /\ Len(w) - 3 >= p2
    THEN DropLast(w, 3) ELSE w

\* Step 5: e deleted in R2, or in R1 when no short syllable precedes it
Step_5(w, p1, p2) ==
    IF /\ EndsWith(w, <<"e">>)
       /\ \/ Len(w) - 1 >= p2
          \/ Len(w) - 1 >= p1 /\ ~shortv(DropLast(w, 1))
    THEN DropLast(w, 1) ELSE w

\* stemmer.stemWord: words of fewer than three letters are left alone
stemWord(w) ==
    IF Len(w) < 3 THEN w
    ELSE LET p1 == p1Of(w)
             p2 == p2Of(w)
         IN Step_5(Step_4(Step_1b(Step_1a(w), p1), p2), p1, p2)

\* stemmer.stemWords: every word, in order
stemWords(ws) == [i \in 1..Len(ws) |-> stemWord(ws[i])]

\* set(stopwords.words("english")): the entries spelt with the alphabet's
\* letters
Stops0 ==
    { <<"d">>, <<"o">>, <<"s">>,
      <<"d", "o">>, <<"s", "o">>, <<"d", "o", "e", "s">> }

\* " ".join
RECURSIVE join(_)
join(ws) ==
    IF ws = <<>> THEN <<>>
    ELSE IF Len(ws) = 1 THEN ws[1]
    ELSE ws[1] \o <<" ">> \o join(Tail(ws))

VARIABLES
    stops,      \* the module-level stopword set
    pc,         \* where the program is: "call"/"ret" around one call of
                \* stemming; "main", "iter", "save", "exit" in the script
    text,       \* stemming's argument
    lowercase,  \* stemming's flag
    words,      \* stemming's local: REGEX.findall(text)
    stemArg,    \* the words handed to stemmer.stemWords
    ret,        \* stemming's return value
    ds,         \* the dataset's "text" column
    batch_size, \* batch_iterator's argument
    pos,        \* how many documents tok_dataset.iter has handed out
    yielded,    \* the groups the trainer has received, in order
    length      \* the length= argument of train_from_iterator

normVars == <<text, lowercase, words, stemArg, ret>>
batchVars == <<ds, batch_size, pos, yielded, length>>
vars == <<stops, pc, text, lowercase, words, stemArg, ret,
          ds, batch_size, pos, yielded, length>>

\* the generator handed to stemWords: word.lower() if lowercase else word
stemmerInput_alwaysLower(ws, lc) == [i \in 1..Len(ws) |-> lower(ws[i])]

stemmerInput(ws, lc) ==
    [i \in 1..Len(ws) |-> IF lc THEN lower(ws[i]) ELSE ws[i]]

\* the join's filter dropped for a blank: "" in place of a stopword
stemming_blank(t, lc) ==
    LET st == stemWords(stemmerInput(findall(t), lc))
    IN join([i \in 1..Len(st) |-> IF st[i] \in stops THEN <<>> ELSE st[i]])

\* the stopword filter moved before the stemmer
stemming_filterFirst(t, lc) ==
    LET NotStop(w) == w \notin stops
    IN join(stemWords(SelectSeq(stemmerInput(findall(t), lc), NotStop)))

\* the stopword filter applied to the word as well as to its stem
stemming_filterBoth(t, lc) ==
    LET inp == stemmerInput(findall(t), lc)
        st == stemWords(inp)
        Keep(i) == st[i] \notin stops /\ inp[i] \notin stops
        RECURSIVE pick(_)
        pick(i) == IF i > Len(st) THEN <<>>
                   ELSE (IF Keep(i) THEN <<st[i]>> ELSE <<>>) \o pick(i + 1)
    IN join(pick(1))

\* the stems de-duplicated, first occurrence kept
stemming_dedup(t, lc) ==
    LET NotStop(w) == w \notin stops
        st == SelectSeq(stemWords(stemmerInput(findall(t), lc)), NotStop)
        RECURSIVE pick(_)
        pick(i) == IF i > Len(st) THEN <<>>
                   ELSE (IF \E k \in 1..(i - 1) : st[k] = st[i]
                         THEN <<>> ELSE <<st[i]>>) \o pick(i + 1)
    IN join(pick(1))

\* the text itself handed back when no word is found in it
stemming_fallback(t, lc) ==
    LET NotStop(w) == w \notin stops
    IN IF findall(t) = <<>> THEN t
       ELSE join(SelectSeq(stemWords(stemmerInput(findall(t), lc)), NotStop))

\* stemming(text, lowercase)
stemming(t, lc) ==
    LET NotStop(w) == w \notin stops
    IN join(SelectSeq(stemWords(stemmerInput(findall(t), lc)), NotStop))

\* batch_iterator's default batch_size
DefaultBatchSize == 1000

\* ------------------------------------------------- one call of stemming
Init ==
    /\ stops = Stops0
    /\ pc = "call"
    /\ text \in Texts
    /\ lowercase = TRUE
    /\ words = <<>>
    /\ stemArg = <<>>
    /\ ret = <<>>
    /\ ds = <<>>
    /\ batch_size = DefaultBatchSize
    /\ pos = 0
    /\ yielded = <<>>
    /\ length = 0

Stemming ==
    /\ pc = "call"
    /\ \E lc \in BOOLEAN :
          /\ lowercase' = lc
          /\ words' = findall(text)
          /\ stemArg' = stemmerInput(words', lc)
          /\ ret' = stemming(text, lc)
    /\ pc' = "ret"
    /\ UNCHANGED <<stops, text>>
    /\ UNCHANGED batchVars

Next == Stemming

Spec == Init /\ [][Next]_vars

\* ---------------------------------------------------------- the script
\* documents the dataset may hold
SampleDocs ==
    { <<>>,
      <<".", " ">>,
      <<"u", "e", "d">>,
      <<"d", "o", " ", "d", "e">> }

Datasets == UNION {[1..n -> SampleDocs] : n \in 0..MaxDocs}

\* tok_dataset.iter(batch_size): the next batch["text"], from offset p
iterBatch(d, n, p) == SubSeq(d, p + 1, IF p + n < Len(d) THEN p + n ELSE Len(d))

InitBatch ==
    /\ stops = Stops0
    /\ pc = "main"
    /\ text = <<>>
    /\ lowercase = TRUE
    /\ words = <<>>
    /\ stemArg = <<>>
    /\ ret = <<>>
    /\ ds \in Datasets
    /\ batch_size = DefaultBatchSize
    /\ pos = 0
    /\ yielded = <<>>
    /\ length = 0

\* tk.train_from_iterator(batch_iterator(), trainer=trainer, length=len(ds)):
\* the generator is made, with the default batch_size or one given
TrainFromIterator ==
    /\ pc = "main"
    /\ \E n \in (1..MaxBatch) \cup {DefaultBatchSize} : batch_size' = n
    /\ length' = Len(ds)
    /\ pc' = "iter"
    /\ UNCHANGED <<stops, ds, pos, yielded>>
    /\ UNCHANGED normVars

\* a group as yielded with the documents that normalise to "" left out
NextBatch_dropEmpty ==
    /\ pc = "iter"
    /\ pos < Len(ds)
    /\ LET batch == iterBatch(ds, batch_size, pos)
           NonEmpty(s) == s # <<>>
       IN /\ yielded' = Append(yielded,
                 SelectSeq([i \in 1..Len(batch) |-> stemming(batch[i], TRUE)],
                           NonEmpty))
          /\ pos' = pos + Len(batch)
    /\ UNCHANGED <<stops, pc, ds, batch_size, length>>
    /\ UNCHANGED normVars

\* a group as yielded by a stemming that adds what it has seen to stops
NextBatch_learnStops ==
    /\ pc = "iter"
    /\ pos < Len(ds)
    /\ LET batch == iterBatch(ds, batch_size, pos)
       IN /\ yielded' = Append(yielded,
                 [i \in 1..Len(batch) |-> stemming(batch[i], TRUE)])
          /\ stops' = stops \cup
                 UNION {{findall(batch[i])[k] : k \in 1..Len(findall(batch[i]))} :
                        i \in 1..Len(batch)}
          /\ pos' = pos + Len(batch)
    /\ UNCHANGED <<pc, ds, batch_size, length>>
    /\ UNCHANGED normVars

\* one turn of the loop in batch_iterator: the next batch, normalised,
\* is yielded to the trainer
NextBatch ==
    /\ pc = "iter"
    /\ pos < Len(ds)
    /\ LET batch == iterBatch(ds, batch_size, pos)
       IN /\ yielded' = Append(yielded,
                 [i \in 1..Len(batch) |-> stemming(batch[i], TRUE)])
          /\ pos' = pos + Len(batch)
    /\ UNCHANGED <<stops, pc, ds, batch_size, length>>
    /\ UNCHANGED normVars

\* the dataset is used up: the generator returns, training ends
StopIteration ==
    /\ pc = "iter"
    /\ pos = Len(ds)
    /\ pc' = "save"
    /\ UNCHANGED <<stops>>
    /\ UNCHANGED batchVars
    /\ UNCHANGED normVars

\* tk.save("wiki-103-word-level.json", pretty=False)
Save ==
    /\ pc = "save"
    /\ pc' = "exit"
    /\ UNCHANGED <<stops>>
    /\ UNCHANGED batchVars
    /\ UNCHANGED normVars

NextB ==
    \/ TrainFromIterator
    \/ NextBatch
    \/ StopIteration
    \/ Save

SpecBatch == InitBatch /\ [][NextB]_vars

\* ================================================================ claims
\* What the claims speak of, stated without the code's own operators.

\* the pieces of s between its spaces (none for the empty string)
RECURSIVE piecesFrom(_, _, _)
piecesFrom(s, i, cur) ==
    IF i > Len(s) THEN <<cur>>
    ELSE IF s[i] = " " THEN <<cur>> \o piecesFrom(s, i + 1, <<>>)
    ELSE piecesFrom(s, i + 1, Append(cur, s[i]))

Tokens(s) == IF s = <<>> THEN <<>> ELSE piecesFrom(s, 1, <<>>)

WordCharSet == {"d", "e", "o", "s", "u", "D"}

\* the maximal runs of word characters of t, left to right: a run grows
\* while word characters come and ends at anything else
RECURSIVE runsFrom(_, _, _)
runsFrom(t, i, cur) ==
    IF i > Len(t) THEN (IF cur = <<>> THEN <<>> ELSE <<cur>>)
    ELSE IF t[i] \in WordCharSet THEN runsFrom(t, i + 1, Append(cur, t[i]))
    ELSE (IF cur = <<>> THEN <<>> ELSE <<cur>>) \o runsFrom(t, i + 1, <<>>)

Runs(t) == runsFrom(t, 1, <<>>)

IsLong(r) == Len(r) >= 2

\* the runs of two or more characters
LongRuns(t) == SelectSeq(Runs(t), IsLong)

\* some run of t is a single character
HasSingle(t) == \E k \in 1..Len(Runs(t)) : Len(Runs(t)[k]) = 1

Fold(w) == IF lowercase THEN lower(w) ELSE w

Returned == pc = "ret"

\* C1: the returned string has no two consecutive spaces, no leading space
\* and no trailing space, and its spaces are one fewer than the stems that
\* are no stopwords
C1_SingleSpaces ==
    Returned =>
        /\ ret # <<>> => ret[1] # " " /\ ret[Len(ret)] # " "
        /\ \A i \in 1..(Len(ret) - 1) : ~(ret[i] = " " /\ ret[i + 1] = " ")
        /\ LET kept == {i \in 1..Len(stemArg) : stemWord(stemArg[i]) \notin Stops0}
               spaces == {i \in 1..Len(ret) : ret[i] = " "}
           IN Cardinality(spaces) =
                  IF kept = {} THEN 0 ELSE Cardinality(kept) - 1

\* C1 witness: one stem comes back bare, from a text with a space before
\* it and two spaces after it
C1_Witness ==
    /\ Returned
    /\ Len(text) = 5
    /\ text[1] = " " /\ text[4] = " " /\ text[5] = " "
    /\ Len(Tokens(ret)) = 1
    /\ Len(ret) = 2

\* C2 as stated: normalising the returned string again returns it unchanged
C2_Idempotent ==
    Returned => stemming(ret, lowercase) = ret

\* a stem that the second pass keeps as it is: word characters only, two or
\* more of them, and a fixed point of case folding followed by the stemmer
Stable(s) ==
    /\ Len(s) >= 2
    /\ \A k \in 1..Len(s) : s[k] \in WordCharSet
    /\ stemWord(Fold(s)) = s

\* C2 amended: when every returned stem is stable, normalising the returned
\* string again returns it unchanged
C2_IdempotentOnStable ==
    LET out == Tokens(ret)
    IN (Returned /\ \A k \in 1..Len(out) : Stable(out[k]))
           => stemming(ret, lowercase) = ret

\* C2 witness: two stable stems returned, one of them not the token it
\* came from
C2_Witness ==
    /\ Returned
    /\ Len(Tokens(ret)) >= 1
    /\ \A k \in 1..Len(Tokens(ret)) : Stable(Tokens(ret)[k])
    /\ Tokens(ret) # stemArg

\* C3 as stated: every token of the returned string has two or more
\* characters
C3_NoShortToken ==
    Returned =>
        LET out == Tokens(ret) IN \A k \in 1..Len(out) : Len(out[k]) >= 2

\* C3 amended: no token of the returned string is empty, and each is the
\* stem of a maximal run of two or more word characters of the text
C3_StemOfLongRun ==
    Returned =>
        LET out == Tokens(ret)
            runs == LongRuns(text)
        IN \A k \in 1..Len(out) :
              /\ out[k] # <<>>
              /\ \E j \in 1..Len(runs) : out[k] = stemWord(Fold(runs[j]))

\* C3 witness: a one-character stem is returned, next to a single
\* character of the text that was dropped
C3_Witness ==
    /\ Returned
    /\ \E k \in 1..Len(Tokens(ret)) : Len(Tokens(ret)[k]) = 1
    /\ HasSingle(text)

\* C4: a token is removed exactly when its stem is a stopword: what is
\* returned holds no stopword and holds every stem that is none, as many
\* times as it was produced; "doed" (no stopword, stem "do") is removed and
\* "does" (a stopword, stem "doe") is kept
C4_FilterOnStem ==
    Returned =>
        LET st == [i \in 1..Len(stemArg) |-> stemWord(stemArg[i])]
            out == Tokens(ret)
        IN /\ \A k \in 1..Len(out) : out[k] \notin Stops0
           /\ \A i \in 1..Len(st) :
                 st[i] \notin Stops0 =>
                     Cardinality({k \in 1..Len(out) : out[k] = st[i]})
                         = Cardinality({j \in 1..Len(st) : st[j] = st[i]})
           /\ \A i \in 1..Len(st) :
                 st[i] \in Stops0 => \A k \in 1..Len(out) : out[k] # st[i]
           /\ text = <<"d", "o", "e", "d">> => ret = <<>>
           /\ text = <<"d", "o", "e", "s">> => ret = <<"d", "o", "e">>

\* C4 witness: the stopword "does" came in and its stem "doe" went out
C4_Witness ==
    /\ Returned
    /\ <<"d", "o", "e", "s">> \in Stops0
    /\ stemArg = << <<"d", "o", "e", "s">> >>
    /\ ret = <<"d", "o", "e">>

\* the stems that are no stopwords, in the order of st
RECURSIVE keptFrom(_, _)
keptFrom(st, i) ==
    IF i > Len(st) THEN <<>>
    ELSE (IF st[i] \in Stops0 THEN <<>> ELSE <<st[i]>>) \o keptFrom(st, i + 1)

\* C5: the tokens returned are the stems of the extracted tokens in text
\* order, the stopword stems deleted: nothing reordered, repeated or merged
C5_OrderPreserved ==
    Returned =>
        LET runs == LongRuns(text)
        IN Tokens(ret) =
               keptFrom([i \in 1..Len(runs) |-> stemWord(Fold(runs[i]))], 1)

\* C5 witness: the same stem returned twice, from two tokens that differ
\* in the text
C5_Witness ==
    /\ Returned
    /\ Len(Tokens(ret)) = 2
    /\ Tokens(ret)[1] = Tokens(ret)[2]
    /\ Len(words) = 2
    /\ words[1] # words[2]

\* C6: a text with no run of two or more word characters (empty, or made of
\* punctuation, spaces and isolated single word characters) returns the
\* empty string
C6_EmptyResult ==
    (Returned /\ LongRuns(text) = <<>>) => ret = <<>> /\ stemArg = <<>>

\* C6 witness: a text of spaces and isolated single letters has returned
\* the empty string
C6_Witness ==
    /\ Returned
    /\ ret = <<>>
    /\ Len(text) = 5
    /\ \E i \in 1..Len(text) : text[i] = " "
    /\ Len(Runs(text)) = 3
    /\ words = <<>>

\* C7: with lowercase the stemmer receives every extracted token lowercased,
\* without it every token as it stands in the text; the stopword test is made
\* on the stem of what the stemmer received ("Do" is kept without lowercase
\* and removed with it)
C7_LowercaseFlag ==
    Returned =>
        /\ lowercase => stemArg = [i \in 1..Len(words) |-> lower(words[i])]
        /\ ~lowercase => stemArg = words
        /\ text = <<"D", "o">> => ret = IF lowercase THEN <<>> ELSE <<"D", "o">>

\* C7 witness: without lowercase, a capitalised token reached the stemmer
\* and came back capitalised, its lowercase form being a stopword
C7_Witness ==
    /\ Returned
    /\ ~lowercase
    /\ stemArg = << <<"D", "o">> >>
    /\ ret = <<"D", "o">>
    /\ lower(ret) \in Stops0

\* C10: the words extracted are exactly the maximal runs of two or more word
\* characters, left to right
C10_MaximalRuns ==
    Returned => words = LongRuns(text)

\* C10 witness: one word of three letters extracted, a single letter
\* beside it dropped
C10_Witness ==
    /\ Returned
    /\ Len(words) = 1
    /\ Len(words[1]) = 3
    /\ HasSingle(text)

\* the documents received so far, group after group
RECURSIVE flatFrom(_, _)
flatFrom(gs, g) == IF g > Len(gs) THEN <<>> ELSE gs[g] \o flatFrom(gs, g + 1)

Received == flatFrom(yielded, 1)

\* a document normalised on its own, with the stopword set as loaded
Alone(t) ==
    LET NotStop(w) == w \notin Stops0
    IN join(SelectSeq(stemWords(stemmerInput(findall(t), TRUE)), NotStop))

C9_EveryDocumentOnce ==
    pc \in {"iter", "save", "exit"} =>
        /\ \A g \in 1..Len(yielded) :
              /\ Len(yielded[g]) >= 1
              /\ Len(yielded[g]) <= batch_size
              /\ g < Len(yielded) => Len(yielded[g]) = batch_size
              /\ \A i \in 1..Len(yielded[g]) :
                    /\ (g - 1) * batch_size + i <= Len(ds)
                    /\ yielded[g][i] =
                           stemming(ds[(g - 1) * batch_size + i], TRUE)
        /\ Len(Received) = pos
        /\ length = Len(ds)
        /\ pc \in {"save", "exit"} => Len(Received) = length

\* C9 witness: the iterator is exhausted after a full group and a shorter
\* last one, and a document that normalised to "" was forwarded
C9_Witness ==
    /\ pc = "save"
    /\ Len(yielded) = 2
    /\ Len(yielded[1]) = batch_size
    /\ Len(yielded[2]) < batch_size
    /\ \E i \in 1..Len(yielded[1]) : yielded[1][i] = <<>>
    /\ \E i \in 1..Len(yielded[1]) : yielded[1][i] # <<>>

====
